---- MODULE Spec2Model ----
(***************************************************************************)
(* Model of src/src/app.py: the Solar Orbiter dashboard.                   *)
(*                                                                         *)
(* The module-level script reads three CSV files, builds the Dash layout   *)
(* (which also opens shap_values_plot.html), registers update_graphs as    *)
(* the callback of the checklist and the date picker, and starts the       *)
(* server.  update_graphs filters the three tables by the Date column and  *)
(* builds four figures.                                                    *)
(*                                                                         *)
(* pandas, plotly and the Dash components are modelled by what the calls   *)
(* in app.py make them do:                                                 *)
(*   - a DataFrame is a header (sequence of column names) and a sequence   *)
(*     of rows, a row being a function from column name to value;          *)
(*   - read_csv leaves the Date column as strings, so every comparison of  *)
(*     dates is Python's string comparison; a date is a fixed-width string *)
(*     of digits, written here as a sequence of digits;                    *)
(*   - DataFrame.corr() is the Pearson coefficient, NaN when fewer than    *)
(*     one observation or a zero variance; a coefficient r is kept         *)
(*     exactly, as its sign and r*r as a reduced fraction.                 *)
(***************************************************************************)
EXTENDS Integers, Sequences, FiniteSets, TLC

VARIABLES files, pc, solar_data, solar_data2, shap_values, layout,
          sess, locals, figs

vars == <<files, pc, solar_data, solar_data2, shap_values, layout,
          sess, locals, figs>>

-----------------------------------------------------------------------------
(* Bounds of the model *)

\* Largest number of rows of a CSV file.
MaxRows == 2

\* Largest number of columns of the instrument CSV file (Date included).
MaxCols == 5

\* Header names by position; a header of n columns is the first n of them.
ColumnNames == <<"Date", "A", "B", "C", "D", "E", "F">>

\* Dates "01-01", "01-02", "02-01" as fixed-width digit strings.
Dates == {<<1, 1>>, <<1, 2>>, <<2, 1>>}

\* Instrument readings and SHAP values.
Vals == {0, 1}

\* Anomaly scores, in units of 0.5: -0.5, 0.0 and 0.5.
Scores == {-1, 0, 1}

\* Browser tabs or HTTP clients talking to the server.
Sessions == {"s1", "s2"}

-----------------------------------------------------------------------------
(* Values *)

\* None / NaN in the place of a date (min() of an empty column, JSON null).
NoDate == <<0>>

\* NaN as a correlation coefficient.
NaN == [sgn |-> 0, num |-> 0, den |-> 0]

\* The coefficient 1.0.
One == [sgn |-> 1, num |-> 1, den |-> 1]

Range(s) == {s[i] : i \in 1..Len(s)}

MinOf(a, b) == IF a <= b THEN a ELSE b

RECURSIVE GCD(_, _)
GCD(a, b) == IF b = 0 THEN a ELSE GCD(b, a % b)

RECURSIVE SumSeq(_)
SumSeq(s) == IF s = <<>> THEN 0 ELSE Head(s) + SumSeq(Tail(s))

\* A DataFrame before it is read.
NoFrame == [columns |-> <<>>, rows |-> <<>>]

-----------------------------------------------------------------------------
(* Python and pandas operations used by app.py *)

\* str < str: the first differing character decides, a proper prefix is less.
StrLT(a, b) ==
    \E k \in 1..(MinOf(Len(a), Len(b)) + 1) :
        /\ \A j \in 1..(k - 1) : a[j] = b[j]
        /\ \/ k > Len(a) /\ k <= Len(b)
           \/ k <= Len(a) /\ k <= Len(b) /\ a[k] < b[k]

StrLE(a, b) == a = b \/ StrLT(a, b)

\* A slip: a strict lower bound.
DateGEStrict(d, start_date) == IF start_date = NoDate THEN FALSE ELSE StrLT(start_date, d)

\* One element of Series >= scalar; a comparison with None is False.
DateGE(d, start_date) == IF start_date = NoDate THEN FALSE ELSE StrLE(start_date, d)

\* A slip: a strict upper bound.
DateLEStrict(d, end_date) == IF end_date = NoDate THEN FALSE ELSE StrLT(d, end_date)

\* One element of Series <= scalar; a comparison with None is False.
DateLE(d, end_date) == IF end_date = NoDate THEN FALSE ELSE StrLE(d, end_date)

\* df[name]: the column as a sequence.
Column(df, name) == [i \in 1..Len(df.rows) |-> df.rows[i][name]]

\* A slip: | in the place of &.
DateMaskOr(df, start_date, end_date) ==
    [i \in 1..Len(df.rows) |->
        DateGE(df.rows[i]["Date"], start_date) \/ DateLE(df.rows[i]["Date"], end_date)]

\* (df['Date'] >= start_date) & (df['Date'] <= end_date)
DateMask(df, start_date, end_date) ==
    [i \in 1..Len(df.rows) |->
        DateGE(df.rows[i]["Date"], start_date) /\ DateLE(df.rows[i]["Date"], end_date)]

RECURSIVE TakeRows(_, _)
TakeRows(rows, mask) ==
    IF rows = <<>> THEN <<>>
    ELSE IF Head(mask) THEN <<Head(rows)>> \o TakeRows(Tail(rows), Tail(mask))
         ELSE TakeRows(Tail(rows), Tail(mask))

\* df[mask]: the rows whose mask is True, in order, under the same header.
BoolIndex(df, mask) == [columns |-> df.columns, rows |-> TakeRows(df.rows, mask)]

\* df[(df['Date'] >= start_date) & (df['Date'] <= end_date)]
FilterByDate(df, start_date, end_date) == BoolIndex(df, DateMask(df, start_date, end_date))

\* Series.min() of a column of strings; NaN when the column is empty.
SeriesMin(col) ==
    IF col = <<>> THEN NoDate
    ELSE CHOOSE m \in Range(col) : \A x \in Range(col) : StrLE(m, x)

\* Series.max() of a column of strings; NaN when the column is empty.
SeriesMax(col) ==
    IF col = <<>> THEN NoDate
    ELSE CHOOSE m \in Range(col) : \A x \in Range(col) : StrLE(x, m)

\* A coefficient from its sign and its square num/den, reduced.
Coefficient(sgn, num, den) ==
    LET g == GCD(num, den)
    IN  [sgn |-> sgn, num |-> num \div g, den |-> den \div g]

\* A slip: the undefined coefficient filled with 0.0 (corr().fillna(0)).
PearsonFillNa(xs, ys) ==
    LET n   == Len(xs)
        sx  == SumSeq(xs)
        sy  == SumSeq(ys)
        sxx == SumSeq([i \in 1..n |-> xs[i] * xs[i]])
        syy == SumSeq([i \in 1..n |-> ys[i] * ys[i]])
        sxy == SumSeq([i \in 1..n |-> xs[i] * ys[i]])
        cov == n * sxy - sx * sy
        vx  == n * sxx - sx * sx
        vy  == n * syy - sy * sy
    IN  IF n < 1 \/ vx * vy = 0 \/ cov = 0 THEN [sgn |-> 0, num |-> 0, den |-> 1]
        ELSE Coefficient(IF cov > 0 THEN 1 ELSE -1, cov * cov, vx * vy)

\* Pearson's r of two columns of equal length (pandas nancorr, minp = 1).
Pearson(xs, ys) ==
    LET n   == Len(xs)
        sx  == SumSeq(xs)
        sy  == SumSeq(ys)
        sxx == SumSeq([i \in 1..n |-> xs[i] * xs[i]])
        syy == SumSeq([i \in 1..n |-> ys[i] * ys[i]])
        sxy == SumSeq([i \in 1..n |-> xs[i] * ys[i]])
        cov == n * sxy - sx * sy
        vx  == n * sxx - sx * sx
        vy  == n * syy - sy * sy
    IN  IF n < 1 \/ vx * vy = 0 THEN NaN
        ELSE IF cov = 0 THEN [sgn |-> 0, num |-> 0, den |-> 1]
        ELSE Coefficient(IF cov > 0 THEN 1 ELSE -1, cov * cov, vx * vy)

\* df[names].corr(): one row per name, one cell per name.
Corr(df, names) ==
    [i \in 1..Len(names) |->
        [j \in 1..Len(names) |-> Pearson(Column(df, names[i]), Column(df, names[j]))]]

-----------------------------------------------------------------------------
(* The layout (app.py lines 35-69) *)

\* A slip: columns[2:-2].
OptionsOffByOne(df) == SubSeq(df.columns, 3, Len(df.columns) - 2)

\* solar_data.columns[1:-2]: the checklist options.
Options(df) == SubSeq(df.columns, 2, Len(df.columns) - 2)

\* [solar_data.columns[1]]: the checklist's default value.
DefaultValue(df) == <<df.columns[2]>>

\* The layout expression raises: columns[1] out of range (IndexError), no Date
\* column (KeyError), or shap_values_plot.html cannot be opened.
LayoutRaises(df, html) ==
    \/ Len(df.columns) < 2
    \/ "Date" \notin Range(df.columns)
    \/ html # "ok"

\* The properties app.py gives the Checklist and the DatePickerRange.
LayoutOf(df) ==
    [options          |-> Options(df),
     value            |-> DefaultValue(df),
     min_date_allowed |-> SeriesMin(Column(df, "Date")),
     max_date_allowed |-> SeriesMax(Column(df, "Date")),
     start_date       |-> SeriesMin(Column(df, "Date")),
     end_date         |-> SeriesMax(Column(df, "Date"))]

NoLayout ==
    [options |-> <<>>, value |-> <<>>, min_date_allowed |-> NoDate,
     max_date_allowed |-> NoDate, start_date |-> NoDate, end_date |-> NoDate]

-----------------------------------------------------------------------------
(* The figures (app.py lines 95-158) *)

\* A slip: the loop left after its first trace.
TimeSeriesFigFirstOnly(filtered_data, selected_instruments) ==
    [k \in 1..MinOf(1, Len(selected_instruments)) |->
        [name |-> selected_instruments[k],
         x    |-> Column(filtered_data, "Date"),
         y    |-> Column(filtered_data, selected_instruments[k])]]

\* One Scatter trace per selected instrument, in selection order.
TimeSeriesFig(filtered_data, selected_instruments) ==
    [k \in 1..Len(selected_instruments) |->
        [name |-> selected_instruments[k],
         x    |-> Column(filtered_data, "Date"),
         y    |-> Column(filtered_data, selected_instruments[k])]]

\* A slip: filtered_data.corr(), the correlation of every numeric column.
CorrelationFigAllColumns(filtered_data, selected_instruments) ==
    [z |-> Corr(filtered_data, Tail(filtered_data.columns)),
     x |-> selected_instruments,
     y |-> selected_instruments]

\* The Heatmap of filtered_data[selected_instruments].corr().
CorrelationFig(filtered_data, selected_instruments) ==
    [z |-> Corr(filtered_data, selected_instruments),
     x |-> selected_instruments,
     y |-> selected_instruments]

\* A slip: val <= 0.
MarkerColorInclusive(val) == IF val <= 0 THEN "red" ELSE "blue"

\* 'red' if val < 0 else 'blue'
MarkerColor(val) == IF val < 0 THEN "red" ELSE "blue"

\* The single Scatter trace of anomaly scores with one colour per marker.
AnomalyScoreFig(filtered_data2) ==
    [x     |-> Column(filtered_data2, "Date"),
     y     |-> Column(filtered_data2, "anomaly_score"),
     color |-> [i \in 1..Len(filtered_data2.rows) |->
                   MarkerColor(filtered_data2.rows[i]["anomaly_score"])]]

\* One stacked Scatter trace per selected instrument over the SHAP table.
ShapFig(filtered_shap_values, selected_instruments) ==
    [k \in 1..Len(selected_instruments) |->
        [name |-> selected_instruments[k],
         x    |-> Column(filtered_shap_values, "Date"),
         y    |-> Column(filtered_shap_values, selected_instruments[k])]]

\* df[name] raises KeyError for a name that is no column of df.
HasColumns(df, names) == \A k \in 1..Len(names) : names[k] \in Range(df.columns)

NoFigs ==
    [status      |-> "none",
     time_series |-> <<>>,
     correlation |-> [z |-> <<>>, x |-> <<>>, y |-> <<>>],
     anomaly     |-> [x |-> <<>>, y |-> <<>>, color |-> <<>>],
     shap        |-> <<>>]

\* The body of update_graphs after the three filters: the four figures, or the
\* KeyError of the first column lookup that fails.
BuildFigures(loc, selected_instruments) ==
    IF /\ HasColumns(loc.filtered_data, selected_instruments)
       /\ HasColumns(loc.filtered_data2, <<"Date", "anomaly_score">>)
       /\ HasColumns(loc.filtered_shap_values, <<"Date">> \o selected_instruments)
    THEN [status      |-> "ok",
          time_series |-> TimeSeriesFig(loc.filtered_data, selected_instruments),
          correlation |-> CorrelationFig(loc.filtered_data, selected_instruments),
          anomaly     |-> AnomalyScoreFig(loc.filtered_data2),
          shap        |-> ShapFig(loc.filtered_shap_values, selected_instruments)]
    ELSE [NoFigs EXCEPT !.status = "KeyError"]

NoLocals ==
    [filtered_data |-> NoFrame, filtered_data2 |-> NoFrame,
     filtered_shap_values |-> NoFrame]

-----------------------------------------------------------------------------
(* The files the process is started with *)

SeqsUpTo(S, k) == UNION {[1..m -> S] : m \in 0..k}

InstrHeader(n) == SubSeq(ColumnNames, 1, n)

\* A row of n columns: column A reads a, column B follows the day (the date's
\* last digit), the other columns read 0.
InstrRow(n, d, a) ==
    [c \in Range(InstrHeader(n)) |->
        IF c = "Date" THEN d
        ELSE IF c = "A" THEN a
        ELSE IF c = "B" THEN d[Len(d)] - 1
        ELSE 0]

\* Instrument tables of n columns: any dates, in any order, any readings.
InstrTables(n) ==
    {[columns |-> InstrHeader(n), rows |-> r] :
        r \in SeqsUpTo({InstrRow(n, d, a) : d \in Dates, a \in Vals}, MaxRows)}

AnomalyTables ==
    {[columns |-> <<"Date", "anomaly_score">>, rows |-> r] :
        r \in SeqsUpTo({[c \in {"Date", "anomaly_score"} |->
                            IF c = "Date" THEN d ELSE v] : d \in Dates, v \in Scores},
                       MaxRows)}

\* The SHAP table carries one column per column name of the instrument table
\* (line 148 looks every selected instrument up in it).
ShapTables ==
    {[columns |-> InstrHeader(MaxCols), rows |-> r] :
        r \in SeqsUpTo({InstrRow(MaxCols, d, a) : d \in Dates, a \in Vals}, MaxRows)}

BaseInstr ==
    [columns |-> InstrHeader(MaxCols),
     rows    |-> <<InstrRow(MaxCols, <<1, 2>>, 0), InstrRow(MaxCols, <<2, 1>>, 1)>>]

BaseAnomaly ==
    [columns |-> <<"Date", "anomaly_score">>,
     rows    |-> <<[c \in {"Date", "anomaly_score"} |-> IF c = "Date" THEN <<1, 2>> ELSE -1],
                   [c \in {"Date", "anomaly_score"} |-> IF c = "Date" THEN <<2, 1>> ELSE 0]>>]

BaseShap ==
    [columns |-> InstrHeader(MaxCols),
     rows    |-> <<InstrRow(MaxCols, <<1, 2>>, 1), InstrRow(MaxCols, <<2, 1>>, 0)>>]

\* An instrument table of four columns: one instrument and the two trailing
\* columns.
OneInstr ==
    [columns |-> InstrHeader(4),
     rows    |-> <<InstrRow(4, <<1, 2>>, 0), InstrRow(4, <<2, 1>>, 1)>>]

File(table) == [status |-> "ok", table |-> table]

Unreadable == {[status |-> st, table |-> NoFrame] : st \in {"missing", "malformed"}}

FileSystem(d, d2, sh, html) ==
    [data_path |-> d, data_path2 |-> d2, shap_values_path |-> sh, plot_html |-> html]

\* File systems in which at most one file is not a fixed one: any instrument
\* table, any anomaly table, any SHAP table, or one file that cannot be read.
FileSystems ==
    UNION {
        {FileSystem(File(t), File(BaseAnomaly), File(BaseShap), "ok") :
            t \in UNION {InstrTables(n) : n \in 1..MaxCols}},
        {FileSystem(File(OneInstr), File(t), File(BaseShap), "ok") : t \in AnomalyTables},
        {FileSystem(File(OneInstr), File(BaseAnomaly), File(t), "ok") : t \in ShapTables},
        {FileSystem(u, File(BaseAnomaly), File(BaseShap), "ok") : u \in Unreadable},
        {FileSystem(File(BaseInstr), u, File(BaseShap), "ok") : u \in Unreadable},
        {FileSystem(File(BaseInstr), File(BaseAnomaly), u, "ok") : u \in Unreadable},
        {FileSystem(File(BaseInstr), File(BaseAnomaly), File(BaseShap), "missing")}}

\* A few file systems: for the runs with two sessions.
FewFileSystems ==
    {FileSystem(File(OneInstr), File(BaseAnomaly), File(BaseShap), "ok"),
     FileSystem(File(OneInstr), File(BaseAnomaly), File(BaseShap), "missing"),
     FileSystem(File(OneInstr), [status |-> "missing", table |-> NoFrame],
                File(BaseShap), "ok")}

-----------------------------------------------------------------------------
(* Start-up: the module-level script, top to bottom *)

\* pd.read_csv(path): the table, when the file can be read.
ReadCsv(file) == IF file.status = "ok" THEN file.table ELSE NoFrame

\* A slip: the read wrapped in try/except, the script going on.
AfterReadIgnoringFailure(file, next) == next

\* Where the script continues after pd.read_csv(path): an exception is not
\* caught, so it ends the script.
AfterRead(file, next) == IF file.status = "ok" THEN next ELSE "fatal"

NoSession ==
    [kind |-> "off", phase |-> "idle", selected |-> <<>>,
     start_date |-> NoDate, end_date |-> NoDate]

InitCommon ==
    /\ pc = "read_data"
    /\ solar_data = NoFrame
    /\ solar_data2 = NoFrame
    /\ shap_values = NoFrame
    /\ layout = NoLayout
    /\ locals = [s \in Sessions |-> NoLocals]
    /\ figs = [s \in Sessions |-> NoFigs]

\* One client, a browser or a raw HTTP client, and any file system.
Init ==
    /\ files \in FileSystems
    /\ \E k \in {"browser", "raw"} :
           sess = [s \in Sessions |-> IF s = "s1" THEN [NoSession EXCEPT !.kind = k]
                                      ELSE NoSession]
    /\ InitCommon

\* Two clients of any kind, and a few file systems.
InitSessions ==
    /\ files \in FewFileSystems
    /\ sess \in [Sessions -> {[NoSession EXCEPT !.kind = k] : k \in {"browser", "raw"}}]
    /\ InitCommon

\* Line 13.
ReadData ==
    /\ pc = "read_data"
    /\ solar_data' = ReadCsv(files.data_path)
    /\ pc' = AfterRead(files.data_path, "read_data2")
    /\ UNCHANGED <<files, solar_data2, shap_values, layout, sess, locals, figs>>

\* Line 14.
ReadData2 ==
    /\ pc = "read_data2"
    /\ solar_data2' = ReadCsv(files.data_path2)
    /\ pc' = AfterRead(files.data_path2, "read_shap")
    /\ UNCHANGED <<files, solar_data, shap_values, layout, sess, locals, figs>>

\* Line 15.
ReadShap ==
    /\ pc = "read_shap"
    /\ shap_values' = ReadCsv(files.shap_values_path)
    /\ pc' = AfterRead(files.shap_values_path, "layout")
    /\ UNCHANGED <<files, solar_data, solar_data2, layout, sess, locals, figs>>

\* Lines 31-69.
BuildLayout ==
    /\ pc = "layout"
    /\ IF LayoutRaises(solar_data, files.plot_html)
       THEN pc' = "fatal" /\ UNCHANGED layout
       ELSE pc' = "callback" /\ layout' = LayoutOf(solar_data)
    /\ UNCHANGED <<files, solar_data, solar_data2, shap_values, sess, locals, figs>>

\* Lines 72-81: the decorator registers update_graphs.
RegisterCallback ==
    /\ pc = "callback"
    /\ pc' = "run_server"
    /\ UNCHANGED <<files, solar_data, solar_data2, shap_values, layout, sess, locals, figs>>

\* Lines 172-173.
RunServer ==
    /\ pc = "run_server"
    /\ pc' = "serving"
    /\ UNCHANGED <<files, solar_data, solar_data2, shap_values, layout, sess, locals, figs>>

-----------------------------------------------------------------------------
(* The clients and the callback.  figs[s] is the response to the request   *)
(* client s made last: it is blank from the request until the return.     *)

\* The values a Checklist can hold: its options, each at most once, in the
\* order they were ticked.
Selections(options) ==
    {q \in SeqsUpTo(Range(options), Len(options)) :
        \A i \in 1..Len(q) : \A j \in 1..Len(q) : q[i] = q[j] => i = j}

\* Ticking or unticking one box of the Checklist: a new value is appended, a
\* held one removed.
Toggle(value, opt) ==
    IF opt \in Range(value) THEN SelectSeq(value, LAMBDA v : v # opt)
    ELSE Append(value, opt)

\* The days the DatePickerRange lets the user pick: those from
\* min_date_allowed to max_date_allowed; a null bound does not restrict.
Pickable(d) ==
    /\ layout.min_date_allowed = NoDate \/ StrLE(layout.min_date_allowed, d)
    /\ layout.max_date_allowed = NoDate \/ StrLE(d, layout.max_date_allowed)

\* The browser loads the page: the controls take the layout's values and Dash
\* fires the callback with them.
PageLoad(s) ==
    /\ pc = "serving"
    /\ sess[s].kind = "browser"
    /\ sess[s].phase = "idle"
    /\ sess' = [sess EXCEPT ![s].selected = layout.value,
                            ![s].start_date = layout.start_date,
                            ![s].end_date = layout.end_date,
                            ![s].phase = "called"]
    /\ figs' = [figs EXCEPT ![s] = NoFigs]
    /\ UNCHANGED <<files, pc, solar_data, solar_data2, shap_values, layout, locals>>

\* The user ticks or unticks an instrument: Input('instrument-checklist', 'value').
ChecklistChange(s) ==
    /\ pc = "serving"
    /\ sess[s].kind = "browser"
    /\ sess[s].phase = "returned"
    /\ \E opt \in Range(layout.options) :
           sess' = [sess EXCEPT ![s].selected = Toggle(sess[s].selected, opt),
                                ![s].phase = "called"]
    /\ figs' = [figs EXCEPT ![s] = NoFigs]
    /\ UNCHANGED <<files, pc, solar_data, solar_data2, shap_values, layout, locals>>

\* The user picks a start date: Input('date-picker-range', 'start_date').
StartDateChange(s) ==
    /\ pc = "serving"
    /\ sess[s].kind = "browser"
    /\ sess[s].phase = "returned"
    /\ \E d \in Dates :
           /\ Pickable(d)
           /\ sess' = [sess EXCEPT ![s].start_date = d, ![s].phase = "called"]
    /\ figs' = [figs EXCEPT ![s] = NoFigs]
    /\ UNCHANGED <<files, pc, solar_data, solar_data2, shap_values, layout, locals>>

\* The user picks an end date: Input('date-picker-range', 'end_date').
EndDateChange(s) ==
    /\ pc = "serving"
    /\ sess[s].kind = "browser"
    /\ sess[s].phase = "returned"
    /\ \E d \in Dates :
           /\ Pickable(d)
           /\ sess' = [sess EXCEPT ![s].end_date = d, ![s].phase = "called"]
    /\ figs' = [figs EXCEPT ![s] = NoFigs]
    /\ UNCHANGED <<files, pc, solar_data, solar_data2, shap_values, layout, locals>>

\* A client that is no browser posts one request with inputs of its own to the
\* callback route: update_graphs does not validate them against the controls'
\* bounds.
RawRequest(s) ==
    /\ pc = "serving"
    /\ sess[s].kind = "raw"
    /\ sess[s].phase = "idle"
    /\ \E q \in Selections(Options(solar_data)) : \E d1 \in Dates : \E d2 \in Dates :
           sess' = [sess EXCEPT ![s].selected = q, ![s].start_date = d1,
                                ![s].end_date = d2, ![s].phase = "called"]
    /\ figs' = [figs EXCEPT ![s] = NoFigs]
    /\ UNCHANGED <<files, pc, solar_data, solar_data2, shap_values, layout, locals>>

\* A slip the callback could make: binding the filtered frames to the
\* module-level names.
FilterStepRebinding(s) ==
    /\ pc = "serving"
    /\ sess[s].phase = "called"
    /\ solar_data' = FilterByDate(solar_data, sess[s].start_date, sess[s].end_date)
    /\ solar_data2' = FilterByDate(solar_data2, sess[s].start_date, sess[s].end_date)
    /\ shap_values' = FilterByDate(shap_values, sess[s].start_date, sess[s].end_date)
    /\ locals' = [locals EXCEPT ![s] =
           [filtered_data        |-> solar_data',
            filtered_data2       |-> solar_data2',
            filtered_shap_values |-> shap_values']]
    /\ sess' = [sess EXCEPT ![s].phase = "filtered"]
    /\ UNCHANGED <<files, pc, layout, figs>>

\* update_graphs, lines 91-93: the three filters, bound to local names.
FilterStep(s) ==
    /\ pc = "serving"
    /\ sess[s].phase = "called"
    /\ locals' = [locals EXCEPT ![s] =
           [filtered_data        |->
                FilterByDate(solar_data, sess[s].start_date, sess[s].end_date),
            filtered_data2       |->
                FilterByDate(solar_data2, sess[s].start_date, sess[s].end_date),
            filtered_shap_values |->
                FilterByDate(shap_values, sess[s].start_date, sess[s].end_date)]]
    /\ sess' = [sess EXCEPT ![s].phase = "filtered"]
    /\ UNCHANGED <<files, pc, solar_data, solar_data2, shap_values, layout, figs>>

\* update_graphs, lines 95-160: the four figures are built and returned; the
\* locals go with the frame.
RenderStep(s) ==
    /\ pc = "serving"
    /\ sess[s].phase = "filtered"
    /\ figs' = [figs EXCEPT ![s] = BuildFigures(locals[s], sess[s].selected)]
    /\ locals' = [locals EXCEPT ![s] = NoLocals]
    /\ sess' = [sess EXCEPT ![s].phase = "returned"]
    /\ UNCHANGED <<files, pc, solar_data, solar_data2, shap_values, layout>>

Next ==
    \/ ReadData
    \/ ReadData2
    \/ ReadShap
    \/ BuildLayout
    \/ RegisterCallback
    \/ RunServer
    \/ \E s \in Sessions : PageLoad(s)
    \/ \E s \in Sessions : ChecklistChange(s)
    \/ \E s \in Sessions : StartDateChange(s)
    \/ \E s \in Sessions : EndDateChange(s)
    \/ \E s \in Sessions : RawRequest(s)
    \/ \E s \in Sessions : FilterStep(s)
    \/ \E s \in Sessions : RenderStep(s)

Spec == Init /\ [][Next]_vars

SpecSessions == InitSessions /\ [][Next]_vars

-----------------------------------------------------------------------------
(* What the properties below are stated with: the calendar order of dates    *)
(* and the rows of a table inside an interval, by index.                     *)

\* The day a date string names, counted from the start of the year's table:
\* the calendar order, not the order of the strings.
Ordinal(d) == d[1] * 10 + d[2]

\* start <= d <= end as dates; no date lies between bounds that are None.
InInterval(d, start_date, end_date) ==
    /\ start_date # NoDate
    /\ end_date # NoDate
    /\ Ordinal(start_date) <= Ordinal(d)
    /\ Ordinal(d) <= Ordinal(end_date)

\* The indices of the rows of df whose Date lies in the interval.
Kept(df, start_date, end_date) ==
    {i \in 1..Len(df.rows) : InInterval(df.rows[i]["Date"], start_date, end_date)}

\* The place among the kept rows of the row of index i.
Place(keep, i) == Cardinality({j \in keep : j <= i})

\* filtered holds the rows of df inside the interval, all of them, in order.
IsFilterOf(filtered, df, start_date, end_date) ==
    LET keep == Kept(df, start_date, end_date)
    IN  /\ filtered.columns = df.columns
        /\ Len(filtered.rows) = Cardinality(keep)
        /\ \A i \in keep : filtered.rows[Place(keep, i)] = df.rows[i]

\* d is the earliest Date of df.
IsMinDate(d, df) ==
    /\ \E i \in 1..Len(df.rows) : df.rows[i]["Date"] = d
    /\ \A i \in 1..Len(df.rows) : Ordinal(d) <= Ordinal(df.rows[i]["Date"])

\* d is the latest Date of df.
IsMaxDate(d, df) ==
    /\ \E i \in 1..Len(df.rows) : df.rows[i]["Date"] = d
    /\ \A i \in 1..Len(df.rows) : Ordinal(df.rows[i]["Date"]) <= Ordinal(d)

\* The selectable instrument columns: all but the first and the last two.
Selectable(df) == {df.columns[i] : i \in 2..(Len(df.columns) - 2)}

Returned(s) == sess[s].phase = "returned"

Filtered(s) == sess[s].phase = "filtered"

-----------------------------------------------------------------------------
\* C1: after the three filters of a call update_graphs(selected, start, end),
\* each filtered table holds exactly the rows of its loaded table whose Date d
\* has start <= d <= end, both bounds included, in their original order.
C1_FilterKeepsExactlyTheInterval ==
    \A s \in Sessions :
        Filtered(s) =>
            /\ IsFilterOf(locals[s].filtered_data, solar_data,
                          sess[s].start_date, sess[s].end_date)
            /\ IsFilterOf(locals[s].filtered_data2, solar_data2,
                          sess[s].start_date, sess[s].end_date)
            /\ IsFilterOf(locals[s].filtered_shap_values, shap_values,
                          sess[s].start_date, sess[s].end_date)

\* A call whose interval keeps a row dated exactly end and drops another row.
C1_Witness ==
    \E s \in Sessions :
        /\ Filtered(s)
        /\ sess[s].start_date # sess[s].end_date
        /\ \E i \in 1..Len(locals[s].filtered_data2.rows) :
               locals[s].filtered_data2.rows[i]["Date"] = sess[s].end_date
        /\ Len(locals[s].filtered_data2.rows) < Len(solar_data2.rows)

-----------------------------------------------------------------------------
\* C7: a call whose start is the earliest Date of a loaded table and whose end
\* is its latest Date leaves that table as it is, row for row; the layout's
\* default interval is the earliest and the latest Date of the instrument table.
C7_FullRangeKeepsEveryRow ==
    /\ \A s \in Sessions :
           Filtered(s) =>
               /\ (/\ IsMinDate(sess[s].start_date, solar_data)
                   /\ IsMaxDate(sess[s].end_date, solar_data))
                      => locals[s].filtered_data = solar_data
               /\ (/\ IsMinDate(sess[s].start_date, solar_data2)
                   /\ IsMaxDate(sess[s].end_date, solar_data2))
                      => locals[s].filtered_data2 = solar_data2
               /\ (/\ IsMinDate(sess[s].start_date, shap_values)
                   /\ IsMaxDate(sess[s].end_date, shap_values))
                      => locals[s].filtered_shap_values = shap_values
    /\ (pc \in {"callback", "run_server", "serving"} /\ solar_data.rows # <<>>)
           => /\ IsMinDate(layout.start_date, solar_data)
              /\ IsMaxDate(layout.end_date, solar_data)

\* A browser's first call, with the layout's defaults, over an instrument table
\* of rows of different dates that are not in ascending order.
C7_Witness ==
    \E s \in Sessions :
        /\ Filtered(s)
        /\ sess[s].kind = "browser"
        /\ sess[s].start_date = layout.start_date
        /\ sess[s].end_date = layout.end_date
        /\ Len(solar_data.rows) >= 2
        /\ Ordinal(solar_data.rows[1]["Date"]) > Ordinal(solar_data.rows[2]["Date"])
        /\ locals[s].filtered_data = solar_data

-----------------------------------------------------------------------------
\* The spec's concrete scenario: rows dated 2020-01-01 to 2020-01-05 (here by
\* their day), instrument columns A and B, selection [A], interval
\* [2020-01-02, 2020-01-04].
ScenarioTable ==
    [columns |-> <<"Date", "A", "B", "C", "D">>,
     rows    |-> [i \in 1..5 |->
                     [c \in {"Date", "A", "B", "C", "D"} |->
                         IF c = "Date" THEN <<0, i>> ELSE IF c = "A" THEN i ELSE 0]]]

ScenarioFigure ==
    TimeSeriesFig(FilterByDate(ScenarioTable, <<0, 2>>, <<0, 4>>), <<"A">>)

\* C2: for a non-empty selection the time-series figure holds one series per
\* selected instrument, named after it, in selection order, and each series
\* has as many x and as many y as the instrument table has rows in the
\* interval; in the concrete scenario that is one series named A of 3 points.
C2_OneSeriesPerInstrument ==
    /\ \A s \in Sessions :
           (Returned(s) /\ sess[s].selected # <<>>) =>
               LET n  == Cardinality(Kept(solar_data, sess[s].start_date, sess[s].end_date))
                   ts == figs[s].time_series
               IN  /\ figs[s].status = "ok"
                   /\ Len(ts) = Len(sess[s].selected)
                   /\ \A k \in 1..Len(ts) :
                          /\ ts[k].name = sess[s].selected[k]
                          /\ Len(ts[k].x) = n
                          /\ Len(ts[k].y) = n
    /\ Len(ScenarioFigure) = 1
    /\ ScenarioFigure[1].name = "A"
    /\ Len(ScenarioFigure[1].x) = 3
    /\ Len(ScenarioFigure[1].y) = 3

\* Two instruments selected, B before A, and an interval inside the table's
\* range that keeps some rows and drops others.
C2_Witness ==
    \E s \in Sessions :
        /\ Returned(s)
        /\ sess[s].selected = <<"B", "A">>
        /\ IsMinDate(sess[s].start_date, solar_data)
        /\ ~IsMaxDate(sess[s].end_date, solar_data)
        /\ Len(figs[s].time_series) = 2
        /\ Len(figs[s].time_series[1].x) >= 1
        /\ Len(figs[s].time_series[1].x) < Len(solar_data.rows)

-----------------------------------------------------------------------------
\* C3: the anomaly figure has one marker colour per plotted point, in the
\* order of the rows of the anomaly table inside the interval; a marker is red
\* exactly when its anomaly_score is below 0, and blue otherwise, 0 included.
C3_ColourPerPoint ==
    \A s \in Sessions :
        Returned(s) =>
            LET keep == Kept(solar_data2, sess[s].start_date, sess[s].end_date)
                an   == figs[s].anomaly
            IN  /\ Len(an.x) = Cardinality(keep)
                /\ Len(an.y) = Cardinality(keep)
                /\ Len(an.color) = Cardinality(keep)
                /\ \A i \in keep :
                       LET k     == Place(keep, i)
                           score == solar_data2.rows[i]["anomaly_score"]
                       IN  /\ an.x[k] = solar_data2.rows[i]["Date"]
                           /\ an.y[k] = score
                           /\ an.color[k] \in {"red", "blue"}
                           /\ an.color[k] = "red" <=> score < 0

\* One figure with a point of score 0 drawn blue after a point of negative
\* score drawn red.
C3_Witness ==
    \E s \in Sessions :
        /\ Returned(s)
        /\ Len(figs[s].anomaly.y) = 2
        /\ figs[s].anomaly.y[1] < 0
        /\ figs[s].anomaly.color[1] = "red"
        /\ figs[s].anomaly.y[2] = 0
        /\ figs[s].anomaly.color[2] = "blue"

-----------------------------------------------------------------------------
\* Every series of a figure of traces is without points.
NoPoints(traces) == \A k \in 1..Len(traces) : traces[k].x = <<>> /\ traces[k].y = <<>>

\* No cell of the matrix holds a value: each is NaN, which a heatmap leaves blank.
NoValues(z) == \A i \in 1..Len(z) : \A j \in 1..Len(z[i]) : z[i][j] = NaN

\* C4: when no row of the three loaded tables has its Date in [start, end],
\* update_graphs returns without raising and no figure holds a data point: the
\* series of the time-series and SHAP figures and the anomaly trace are empty,
\* and no cell of the correlation matrix holds a value.
C4_EmptyIntervalGivesEmptyCharts ==
    \A s \in Sessions :
        (/\ Returned(s)
         /\ Kept(solar_data, sess[s].start_date, sess[s].end_date) = {}
         /\ Kept(solar_data2, sess[s].start_date, sess[s].end_date) = {}
         /\ Kept(shap_values, sess[s].start_date, sess[s].end_date) = {})
            => /\ figs[s].status = "ok"
               /\ NoPoints(figs[s].time_series)
               /\ NoPoints(figs[s].shap)
               /\ figs[s].anomaly.x = <<>>
               /\ figs[s].anomaly.y = <<>>
               /\ figs[s].anomaly.color = <<>>
               /\ NoValues(figs[s].correlation.z)

\* Two instruments selected and an interval that ends before the earliest Date
\* of each of the three tables, none of them empty.
C4_Witness ==
    \E s \in Sessions :
        /\ Returned(s)
        /\ Len(sess[s].selected) = 2
        /\ solar_data.rows # <<>> /\ solar_data2.rows # <<>> /\ shap_values.rows # <<>>
        /\ Ordinal(sess[s].start_date) <= Ordinal(sess[s].end_date)
        /\ \A i \in 1..Len(solar_data.rows) :
               Ordinal(sess[s].end_date) < Ordinal(solar_data.rows[i]["Date"])
        /\ \A i \in 1..Len(solar_data2.rows) :
               Ordinal(sess[s].end_date) < Ordinal(solar_data2.rows[i]["Date"])
        /\ \A i \in 1..Len(shap_values.rows) :
               Ordinal(sess[s].end_date) < Ordinal(shap_values.rows[i]["Date"])
        /\ figs[s].status = "ok"
        /\ Len(figs[s].time_series) = 2
        /\ Len(figs[s].correlation.z) = 2

-----------------------------------------------------------------------------
\* C5: with no instrument selected update_graphs returns without raising, the
\* time-series figure has no series and the correlation matrix is 0 x 0.
C5_EmptySelectionGivesEmptyCharts ==
    \A s \in Sessions :
        (Returned(s) /\ sess[s].selected = <<>>)
            => /\ figs[s].status = "ok"
               /\ figs[s].time_series = <<>>
               /\ figs[s].correlation.z = <<>>
               /\ figs[s].correlation.x = <<>>
               /\ figs[s].correlation.y = <<>>

\* A browser whose user unticked every instrument, over an interval that holds
\* rows of the instrument table and of the anomaly table.
C5_Witness ==
    \E s \in Sessions :
        /\ Returned(s)
        /\ sess[s].kind = "browser"
        /\ sess[s].selected = <<>>
        /\ Kept(solar_data, sess[s].start_date, sess[s].end_date) # {}
        /\ figs[s].status = "ok"
        /\ figs[s].anomaly.x # <<>>

-----------------------------------------------------------------------------
\* The values the selected column takes over the rows inside the interval.
ValuesInside(df, name, start_date, end_date) ==
    {df.rows[i][name] : i \in Kept(df, start_date, end_date)}

\* C6 as stated: for a selection of one instrument the correlation matrix is
\* [[1.0]], whatever the interval and the column's content.  It is stated here
\* for the calls that select a selectable instrument over an interval that
\* holds at least one row, which the claim covers.
C6_SingleSelectionIsOne ==
    \A s \in Sessions :
        (/\ Returned(s)
         /\ Len(sess[s].selected) = 1
         /\ Range(sess[s].selected) \subseteq Selectable(solar_data)
         /\ Kept(solar_data, sess[s].start_date, sess[s].end_date) # {})
            => /\ figs[s].status = "ok"
               /\ figs[s].correlation.z = <<<<One>>>>

\* C6, amended: for a selection of one instrument update_graphs returns
\* without raising and the correlation matrix is 1 x 1; its cell is 1.0 when
\* the instrument's column takes at least two different values over the rows
\* inside the interval, and NaN otherwise (no row inside, or a constant column).
C6_SingleSelectionIsOneOrNaN ==
    \A s \in Sessions :
        (Returned(s) /\ Len(sess[s].selected) = 1)
            => /\ figs[s].status = "ok"
               /\ Len(figs[s].correlation.z) = 1
               /\ Len(figs[s].correlation.z[1]) = 1
               /\ figs[s].correlation.z[1][1] =
                      IF Cardinality(ValuesInside(solar_data, sess[s].selected[1],
                                                  sess[s].start_date, sess[s].end_date)) >= 2
                      THEN One ELSE NaN

\* One instrument selected whose column varies inside the interval: the cell is 1.0.
C6_Witness ==
    \E s \in Sessions :
        /\ Returned(s)
        /\ Len(sess[s].selected) = 1
        /\ Cardinality(Kept(solar_data, sess[s].start_date, sess[s].end_date)) >= 2
        /\ figs[s].correlation.z = <<<<One>>>>

-----------------------------------------------------------------------------
Unread(file) == file.status # "ok"

\* Every load step has completed: the three tables are those of the files and
\* the page of the Iframe was opened.
LoadsSucceeded ==
    /\ ~Unread(files.data_path) /\ solar_data = files.data_path.table
    /\ ~Unread(files.data_path2) /\ solar_data2 = files.data_path2.table
    /\ ~Unread(files.shap_values_path) /\ shap_values = files.shap_values_path.table
    /\ files.plot_html = "ok"

\* The step the script is at reads a file that cannot be read.
LoadFails ==
    \/ pc = "read_data" /\ Unread(files.data_path)
    \/ pc = "read_data2" /\ Unread(files.data_path2)
    \/ pc = "read_shap" /\ Unread(files.shap_values_path)
    \/ pc = "layout" /\ files.plot_html # "ok"

\* C8: the server runs, and update_graphs is dispatched, only when every load
\* step has completed successfully; a load step that fails ends the script in
\* the fatal state, which is never left (no retry).
C8_NoServingAfterFailedLoad ==
    /\ []((pc = "serving" \/ \E s \in Sessions : sess[s].phase # "idle") => LoadsSucceeded)
    /\ [][(LoadFails \/ pc = "fatal") => pc' = "fatal"]_vars

\* The second CSV file is malformed: the script has ended at its read, after
\* the first table was loaded, and no client was ever answered.
C8_Witness ==
    /\ pc = "fatal"
    /\ files.data_path2.status = "malformed"
    /\ solar_data = files.data_path.table
    /\ solar_data.rows # <<>>
    /\ \A s \in Sessions : sess[s].phase = "idle" /\ figs[s] = NoFigs

-----------------------------------------------------------------------------
\* d lies between the earliest and the latest Date of df.
InRangeOf(d, df) ==
    /\ d # NoDate
    /\ \E i \in 1..Len(df.rows) : Ordinal(df.rows[i]["Date"]) <= Ordinal(d)
    /\ \E i \in 1..Len(df.rows) : Ordinal(d) <= Ordinal(df.rows[i]["Date"])

\* The controls of every browser hold selectable instruments and dates inside
\* the instrument table's range, and the layout's default selection, the
\* table's second column, is one of the checklist's options.
ControlsWithinBounds ==
    /\ \A s \in Sessions :
           (sess[s].kind = "browser" /\ sess[s].phase # "idle")
               => /\ Range(sess[s].selected) \subseteq Selectable(solar_data)
                  /\ InRangeOf(sess[s].start_date, solar_data)
                  /\ InRangeOf(sess[s].end_date, solar_data)
    /\ pc \in {"callback", "run_server", "serving"}
           => /\ Range(layout.options) = Selectable(solar_data)
              /\ layout.value = <<solar_data.columns[2]>>
              /\ Range(layout.value) \subseteq Range(layout.options)

-----------------------------------------------------------------------------
\* The figures update_graphs computes from the tables of the files alone.
FiguresFor(selected_instruments, start_date, end_date) ==
    BuildFigures(
        [filtered_data        |-> FilterByDate(files.data_path.table, start_date, end_date),
         filtered_data2       |-> FilterByDate(files.data_path2.table, start_date, end_date),
         filtered_shap_values |-> FilterByDate(files.shap_values_path.table,
                                               start_date, end_date)],
        selected_instruments)

\* C10: while clients are served, whatever calls were made and however the
\* calls of several sessions interleave, the three tables are the ones loaded
\* from the files, and the figures a call returned are those of its own
\* selection and interval over these tables.
C10_CallsLeaveTablesAlone ==
    /\ pc = "serving" =>
           /\ solar_data = files.data_path.table
           /\ solar_data2 = files.data_path2.table
           /\ shap_values = files.shap_values_path.table
    /\ \A s \in Sessions :
           Returned(s) =>
               figs[s] = FiguresFor(sess[s].selected, sess[s].start_date, sess[s].end_date)

\* Two sessions at once: one between its filters and its figures, on an
\* interval it changed, while the other has its answer for another interval.
C10_Witness ==
    /\ sess["s1"].phase = "filtered"
    /\ sess["s1"].kind = "browser"
    /\ sess["s1"].start_date # layout.start_date
    /\ Len(locals["s1"].filtered_data.rows) = 1
    /\ Returned("s2")
    /\ sess["s2"].start_date # sess["s1"].start_date
    /\ figs["s2"].status = "ok"
    /\ Len(figs["s2"].anomaly.x) = 2

====
